---- MODULE Spec2Model ----
(***************************************************************************)
(* Model of the input-to-command translation core of the LISU control     *)
(* panel: MainWindow (src/ui/main_window.py) with the LisuManager it      *)
(* calls (src/lisu/lisu_handler.py).                                      *)
(*                                                                         *)
(* Axis values are fixed-point hundredths (0.1 is 10, 0.01 is 1, 1.0 is   *)
(* 100); times are milliseconds.                                          *)
(*                                                                         *)
(* Two facts of the source shape every behaviour:                         *)
(*  - self.buttons is read at lines 669, 681, 1176 and 1181 but is never  *)
(*    assigned, so each of those loops raises AttributeError, which the   *)
(*    enclosing handler catches.  In connect_device this happens after    *)
(*    the Joystick handle and the previous-axis values are stored and     *)
(*    before is_reading_input = True and input_timer.start(16).           *)
(*  - self.udp_socket is assigned only once, to None (line 27), so every  *)
(*    self.udp_socket.sendto/close raises AttributeError.                 *)
(*                                                                         *)
(* UDPManager (src/lisu/udp_manager.py) and DeviceManager                  *)
(* (src/lisu/device_manager.py) are not used by the window; their calls   *)
(* are actions of SpecComponents, next to the window's connect and        *)
(* disconnect.                                                            *)
(*                                                                         *)
(* Spec starts from the constructed window.  SpecReading starts from the  *)
(* armed session that lines 660-674 of connect_device are written to      *)
(* establish, and runs the same handlers; under it the per-tick pipeline  *)
(* of read_gamepad_input is exercised.                                    *)
(***************************************************************************)
EXTENDS Integers, Sequences, FiniteSets, TLC

VARIABLES
    config_has_commands, \* self.config has ["commands"]["command_formats"]
    gamepad,             \* self.gamepad is not None
    is_reading_input,    \* self.is_reading_input
    timer_active,        \* self.input_timer is running
    x_offset, y_offset,  \* calibration offsets
    has_prev,            \* hasattr(self, 'prev_x_axis')
    prev_x_axis, prev_y_axis,
    has_last_send_time,  \* hasattr(self, 'last_send_time')
    last_send_time,
    x_mapping, y_mapping, z_mapping,
    yaw_mapping, pitch_mapping, roll_mapping,
    udp_socket,          \* "None" or "open"
    current_device,      \* LisuManager.current_device
    closed,              \* closeEvent has run
    now,                 \* datetime.now(), in ms
    sent,                \* datagrams handed to the socket, oldest first
    op,                  \* the handler that ran last and how it ended
    sample,              \* filtered <<x, y>> of the last tick, <<>> if none
    calls,               \* send_command invocations of the last handler
    last_selected,       \* mode named by the last accepted selection
    raw,                 \* raw <<x, y>> the last handler read from the device, <<>> if none
    input_devices,       \* names in LisuManager.device_config["input_devices"]
    socket,              \* UDPManager.socket: 0 is None, n > 0 the n-th socket object created
    sockets_created,     \* socket objects created so far by UDPManager.connect
    target_ip, target_port,  \* UDPManager.target_ip, UDPManager.target_port
    um_op,               \* the last UDPManager call and how it went
    dm_current_device,   \* DeviceManager.current_device, a name or "None"
    config_file,         \* data/config.json: whether it exists and its top-level sections
    device_config,       \* DeviceManager.device_config, the document it holds
    command_config,      \* CommandHandler.command_config, by shape
    startup,             \* whether the run began without data/config.json, and the constructors run so far
    ch_op                \* the last CommandHandler call and how it went

sessionVars == <<gamepad, is_reading_input, timer_active>>
calibVars == <<x_offset, y_offset>>
dispatchVars == <<has_prev, prev_x_axis, prev_y_axis, has_last_send_time, last_send_time>>
mappingVars == <<x_mapping, y_mapping, z_mapping, yaw_mapping, pitch_mapping, roll_mapping>>
envVars == <<config_has_commands, udp_socket, closed, input_devices>>
managerVars == <<socket, sockets_created, target_ip, target_port, um_op, dm_current_device>>
startupVars == <<config_file, device_config, command_config, startup, ch_op>>
vars == <<config_has_commands, gamepad, is_reading_input, timer_active,
          x_offset, y_offset, has_prev, prev_x_axis, prev_y_axis,
          has_last_send_time, last_send_time,
          x_mapping, y_mapping, z_mapping, yaw_mapping, pitch_mapping, roll_mapping,
          udp_socket, current_device, closed, now, sent, op, sample, calls,
          last_selected, raw, input_devices, socket, sockets_created,
          target_ip, target_port, um_op, dm_current_device,
          config_file, device_config, command_config, startup, ch_op>>

\* ---- bounds ----
MaxElapse == 4          \* the clock is followed for MaxElapse steps
ClockStep == 50         \* ms between two instants at which the clock is read
MaxIdleElapse == 2      \* clock steps followed when the window starts from construction
MaxSent == 2            \* length kept of the datagram log
MaxStartup == 3         \* constructor calls followed
MaxSockets == 2         \* socket objects UDPManager is followed through

\* ---- program constants ----
Threshold == 10         \* threshold = 0.1
MoveDelta == 1          \* > 0.01
SendInterval == 100     \* time_diff >= 0.1
One == 100              \* the literal 1.0 of the control_* handlers
Angle == 4000           \* the rotation text "40.0" (line 243), once parsed
Duration == 1           \* the "1" LisuManager.send_command passes as duration

\* raw axis readings the device is sampled at by a tick, and at calibration
RawX == {0, 11, 12, 13}
RawY == {0, -10}
CalX == {0, 11}
CalY == {0, -10}
\* coarse samples, for the runs that vary the mapping mode instead
ModeX == {0, 11}
ModeY == {0, -10}

Devices == {"Gamepad_0", "Bluetooth_mouse", "SpaceMouse"}
LisuDevices == {"Bluetooth_mouse", "SpaceMouse"}
CmdKinds == {"unknown", "fmt3", "fmt4", "fmtOther"}
\* with a template of three '%.2f' and one further specifier
AllKinds == CmdKinds \cup {"fmt3s"}
\* the default input_devices of DeviceManager (device_manager.py 20-37)
DmDevices == {"Bluetooth_mouse", "SpaceMouse"}
\* what data/visualisation_config.json can list as input devices
ConfiguredDevices == {LisuDevices, {"SpaceMouse"}}
TargetIps == {"127.0.0.1", "10.0.0.5"}
TargetPorts == {7755, 9000}

Abs(v) == IF v < 0 THEN -v ELSE v

\* ---- pure parts of read_gamepad_input and send_command ----

\* mutant: the reading flag is not consulted
pipeline_guard_handle_only == gamepad

\* line 1188 negated: the tick goes on only when reading and a handle is held
pipeline_guard == is_reading_input /\ gamepad

\* mutant: either gate is enough
shouldSend_either(x, y, px, py) ==
    \/ (Abs(x) > Threshold \/ Abs(y) > Threshold)
    \/ (Abs(x - px) > MoveDelta \/ Abs(y - py) > MoveDelta)

\* lines 1216-1220: position gate and movement gate, both required
shouldSend(x, y, px, py) ==
    /\ (Abs(x) > Threshold \/ Abs(y) > Threshold)
    /\ (Abs(x - px) > MoveDelta \/ Abs(y - py) > MoveDelta)

\* line 1221
rate_limit_ok(time_diff) == time_diff >= SendInterval

\* mutant: Roll driven by the inverted physical Y
mapping_args_roll_y(x, y) ==
    IF x_mapping THEN <<x, 0, 0>>
    ELSE IF y_mapping THEN <<0, -y, 0>>
    ELSE IF z_mapping THEN <<0, 0, -y>>
    ELSE IF yaw_mapping THEN <<0, x, 0>>
    ELSE IF pitch_mapping THEN <<-y, 0, 0>>
    ELSE IF roll_mapping THEN <<0, 0, -y>>
    ELSE <<x, -y, 0>>

\* lines 1228-1242: the if/elif chain over the six flags, default last
mapping_args(x, y) ==
    IF x_mapping THEN <<x, 0, 0>>
    ELSE IF y_mapping THEN <<0, -y, 0>>
    ELSE IF z_mapping THEN <<0, 0, -y>>
    ELSE IF yaw_mapping THEN <<0, x, 0>>
    ELSE IF pitch_mapping THEN <<-y, 0, 0>>
    ELSE IF roll_mapping THEN <<0, 0, x>>
    ELSE <<x, -y, 0>>

\* mutant: the previous values are stored only for an accepted sample
stored_prev_if_accepted(accepted, cur, old) == IF accepted THEN cur ELSE old

\* lines 1252-1253: what the tick stores as previous values (old = stored
\* before, cur = this tick's filtered value, accepted = the gates passed)
stored_prev(accepted, cur, old) == cur

\* line 1245: the stamp after send_command has returned (ok = it returned True)
stamp_after_send(ok, t, old) == t

\* ---- templates and the % operator ----

\* an argument of %: a number, or None
Num(v) == [none |-> FALSE, v |-> v]
NoneArg == [none |-> TRUE, v |-> 0]

\* a template is a sequence of tokens; these are its conversion specifiers
Specifiers == {"%.2f", "%.3f", "%s"}
SpecsOf(t) == SelectSeq(t, LAMBDA tok : tok \in Specifiers)

\* the text of t with each specifier replaced by its argument, in order
RECURSIVE Fill(_, _)
Fill(t, args) ==
    IF t = <<>> THEN <<>>
    ELSE IF Head(t) \in Specifiers
    THEN <<[lit |-> "", spec |-> Head(t), v |-> Head(args).v]>> \o Fill(Tail(t), Tail(args))
    ELSE <<[lit |-> Head(t), spec |-> "", v |-> 0]>> \o Fill(Tail(t), args)

\* t % args: TypeError (ok false) unless there is one argument for each
\* specifier and every float specifier gets a number
py_format(t, args) ==
    IF /\ Len(SpecsOf(t)) = Len(args)
       /\ \A i \in 1..Len(args) : SpecsOf(t)[i] # "%s" => ~args[i].none
    THEN [ok |-> TRUE, text |-> Fill(t, args)]
    ELSE [ok |-> FALSE, text |-> <<>>]

\* command_formats as a data/config.json can give them, by kind
command_formats(kind) ==
    CASE kind = "fmt3" -> <<"translate", "%.2f", "%.2f", "%.2f">>
      [] kind = "fmt4" -> <<"rotate", "%.2f", "%.2f", "%.2f", "%.2f">>
      [] kind = "fmt3s" -> <<"rotate", "%.2f", "%.2f", "%.2f", "%s">>
      [] kind = "fmtOther" -> <<"addrotation", "%.3f", "%.3f", "%.3f", "%s">>
      [] OTHER -> <<>>

\* line 1118: command_format.count('%.2f')
param_count(t) == Len(SelectSeq(t, LAMBDA tok : tok = "%.2f"))

\* mutant: the scale is always passed
send_args_with_scale(t, a, scale) == <<Num(a[1]), Num(a[2]), Num(a[3]), scale>>

\* lines 1121-1126: the argument tuple, chosen by the placeholder count
send_args(t, a, scale) ==
    IF param_count(t) = 3 THEN <<Num(a[1]), Num(a[2]), Num(a[3])>>
    ELSE <<Num(a[1]), Num(a[2]), Num(a[3]), scale>>

\* send_command, lines 1110-1158, by how it ends, for a call with the given
\* scale (None when the caller passes three numbers):
\*   "raised"      self.config["commands"] is absent: KeyError at 1113, and the
\*                 handler at 1155 reads command_format, which is unbound, so
\*                 UnboundLocalError leaves send_command
\*   "unknown"     cmd_type not in command_formats: status, False (1147-1151)
\*   "unsupported" placeholder count neither 3 nor 4: False, no status (1127-1129)
\*   "error"       an exception in 1132-1138, status, False (1152-1158): the
\*                 TypeError of % at 1132, or sendto on self.udp_socket,
\*                 which is None, so that every call that gets there ends here
\*   "sent"        sendto returned, status, True (1138-1146)
send_result_for(kind, scale) ==
    IF ~config_has_commands THEN "raised"
    ELSE IF kind = "unknown" THEN "unknown"
    ELSE IF param_count(command_formats(kind)) \notin {3, 4} THEN "unsupported"
    ELSE IF ~py_format(command_formats(kind),
                       send_args(command_formats(kind), <<0, 0, 0>>, scale)).ok THEN "error"
    ELSE IF udp_socket = "None" THEN "error"
    ELSE "sent"

\* send_command as the control_* handlers and the tick call it, with the
\* parsed rotation angle as scale
send_result(kind) == send_result_for(kind, Num(Angle))

\* whether the call set a status message: 1143-1145, 1150, 1157; not at 1129,
\* and not when line 1155 raised
send_status(res) == res \in {"unknown", "error", "sent"}

\* line 1138: the datagram log after a send_command that ended with res
after_send(res, a) ==
    IF res = "sent" /\ Len(sent) < MaxSent
    THEN Append(sent, [msg |-> "cmd", x |-> a[1], y |-> a[2], z |-> a[3], t |-> now])
    ELSE sent

\* the record of one send_command call: what it was given, the argument tuple
\* of 1122/1125 and the text of 1132 when it got that far, how it ended
CallWith(a, kind, scale) ==
    LET res == send_result_for(kind, scale)
        formatted == res \in {"error", "sent"}
        t == command_formats(kind)
        args == send_args(t, a, scale)
    IN [x |-> a[1], y |-> a[2], z |-> a[3], kind |-> kind, res |-> res,
        scale |-> scale,
        status |-> send_status(res),
        args |-> IF formatted THEN args ELSE <<>>,
        command |-> IF formatted THEN py_format(t, args).text ELSE <<>>]

Call(a, kind) == CallWith(a, kind, Num(Angle))

\* mutant: the baseline is stored as it is
calibration_offset_keep(baseline) == baseline

\* lines 801-802: the offset stored for a baseline reading
calibration_offset(baseline) == -baseline

\* lines 1196-1197: the filtered value of a raw reading
apply_offset(r, offset) == r + offset

\* ---- initial states ----

NoCall == [name |-> "none", ret |-> "None", created |-> "no", tx |-> "none",
           handle |-> 0, ip |-> "", port |-> 0]

\* data/config.json by its top-level sections.  "commands" is
\*   "absent"   no such section
\*   "types"    the table device type -> axis -> template, as
\*              CommandHandler.load_config writes it (command_handler.py 18-43)
\*   "wrapped"  a section that itself holds a "commands" key with that table
\*   "formats"  the section the window reads, holding "command_formats"
\* and udp is <<ip, port>>, or <<>> when there is no "udp" section.
NoDoc == [exists |-> FALSE, input_devices |-> FALSE, commands |-> "absent", udp |-> <<>>]
Doc(devs, cmds, udp) == [exists |-> TRUE, input_devices |-> devs, commands |-> cmds, udp |-> udp]

\* no CommandHandler call yet
NoChCall == [name |-> "none", device_type |-> "", axis |-> "", raised |-> "none",
             ret |-> "none", command |-> <<>>]

\* no DeviceManager and no CommandHandler: main.py (6-21) builds neither
InitUnbuilt ==
    /\ device_config = NoDoc
    /\ command_config = "None"
    /\ startup = [fresh |-> FALSE, order |-> <<>>]
    /\ ch_op = NoChCall

\* UDPManager.__init__ (udp_manager.py 7-11): no socket; DeviceManager.__init__
\* (device_manager.py 8-11): no current device
InitManagers ==
    /\ socket = 0
    /\ sockets_created = 0
    /\ um_op = NoCall
    /\ dm_current_device = "None"


\* __init__ (22-60) and setup_gamepad (608-627); prev_x_axis, prev_y_axis and
\* last_send_time do not exist yet.  load_config (629-635) yields the file's
\* document or, when data/config.json is absent, one with only "udp".
Init ==
    /\ config_has_commands \in BOOLEAN
    /\ gamepad = FALSE
    /\ is_reading_input = FALSE
    /\ timer_active = FALSE
    /\ x_offset = 0 /\ y_offset = 0
    /\ has_prev = FALSE /\ prev_x_axis = 0 /\ prev_y_axis = 0
    /\ has_last_send_time = FALSE /\ last_send_time = 0
    /\ x_mapping = FALSE /\ y_mapping = FALSE /\ z_mapping = FALSE
    /\ yaw_mapping = FALSE /\ pitch_mapping = FALSE /\ roll_mapping = FALSE
    /\ udp_socket = "None"
    /\ current_device = "None"
    /\ closed = FALSE
    /\ now = 0
    /\ sent = <<>>
    /\ op = "init"
    /\ sample = <<>>
    /\ calls = <<>>
    /\ last_selected = "none"
    /\ raw = <<>>
    /\ input_devices = LisuDevices
    /\ target_ip = "127.0.0.1" /\ target_port = 7755
    /\ InitManagers
    /\ config_file = IF config_has_commands
                     THEN Doc(FALSE, "formats", <<"127.0.0.1", 7755>>) ELSE NoDoc
    /\ InitUnbuilt

\* The constructed window with the session armed as lines 660-674 of
\* connect_device set it: handle stored, previous values 0.0, reading flag
\* set, timer started.
InitReading ==
    /\ config_has_commands \in BOOLEAN
    /\ gamepad = TRUE
    /\ is_reading_input = TRUE
    /\ timer_active = TRUE
    /\ x_offset = 0 /\ y_offset = 0
    /\ has_prev = TRUE /\ prev_x_axis = 0 /\ prev_y_axis = 0
    /\ has_last_send_time = FALSE /\ last_send_time = 0
    /\ x_mapping = FALSE /\ y_mapping = FALSE /\ z_mapping = FALSE
    /\ yaw_mapping = FALSE /\ pitch_mapping = FALSE /\ roll_mapping = FALSE
    /\ udp_socket = "None"
    /\ current_device = "None"
    /\ closed = FALSE
    /\ now = 0
    /\ sent = <<>>
    /\ op = "init"
    /\ sample = <<>>
    /\ calls = <<>>
    /\ last_selected = "none"
    /\ raw = <<>>
    /\ input_devices = LisuDevices
    /\ target_ip = "127.0.0.1" /\ target_port = 7755
    /\ InitManagers
    /\ config_file = IF config_has_commands
                     THEN Doc(FALSE, "formats", <<"127.0.0.1", 7755>>) ELSE NoDoc
    /\ InitUnbuilt

\* Before any of DeviceManager, CommandHandler and UDPManager is constructed:
\* data/config.json is absent, or is a document left by an earlier run or
\* written by hand.
Documents ==
    {NoDoc} \cup {Doc(TRUE, c, u) : c \in {"absent", "types", "wrapped", "formats"},
                                   u \in {<<>>, <<"10.0.0.5", 9000>>}}
InitStartup ==
    /\ config_file \in Documents
    /\ config_has_commands = (config_file.commands = "formats")
    /\ gamepad = FALSE
    /\ is_reading_input = FALSE
    /\ timer_active = FALSE
    /\ x_offset = 0 /\ y_offset = 0
    /\ has_prev = FALSE /\ prev_x_axis = 0 /\ prev_y_axis = 0
    /\ has_last_send_time = FALSE /\ last_send_time = 0
    /\ x_mapping = FALSE /\ y_mapping = FALSE /\ z_mapping = FALSE
    /\ yaw_mapping = FALSE /\ pitch_mapping = FALSE /\ roll_mapping = FALSE
    /\ udp_socket = "None"
    /\ current_device = "None"
    /\ closed = FALSE
    /\ now = 0
    /\ sent = <<>>
    /\ op = "init"
    /\ sample = <<>>
    /\ calls = <<>>
    /\ last_selected = "none"
    /\ raw = <<>>
    /\ input_devices = LisuDevices
    /\ target_ip = "127.0.0.1" /\ target_port = 7755
    /\ InitManagers
    /\ device_config = NoDoc
    /\ command_config = "None"
    /\ startup = [fresh |-> ~config_file.exists, order |-> <<>>]
    /\ ch_op = NoChCall

\* The constructed window and managers, with either configuration of
\* LisuManager and the target UDPManager.load_config (udp_manager.py 13-33)
\* reads from data/config.json
InitComponents ==
    /\ config_has_commands = FALSE
    /\ gamepad = FALSE
    /\ is_reading_input = FALSE
    /\ timer_active = FALSE
    /\ x_offset = 0 /\ y_offset = 0
    /\ has_prev = FALSE /\ prev_x_axis = 0 /\ prev_y_axis = 0
    /\ has_last_send_time = FALSE /\ last_send_time = 0
    /\ x_mapping = FALSE /\ y_mapping = FALSE /\ z_mapping = FALSE
    /\ yaw_mapping = FALSE /\ pitch_mapping = FALSE /\ roll_mapping = FALSE
    /\ udp_socket = "None"
    /\ current_device = "None"
    /\ closed = FALSE
    /\ now = 0
    /\ sent = <<>>
    /\ op = "init"
    /\ sample = <<>>
    /\ calls = <<>>
    /\ last_selected = "none"
    /\ raw = <<>>
    /\ input_devices \in ConfiguredDevices
    /\ target_ip \in TargetIps /\ target_port \in TargetPorts
    /\ InitManagers
    /\ config_file = Doc(TRUE, "absent", <<target_ip, target_port>>)
    /\ device_config = config_file
    /\ command_config = "None"
    /\ startup = [fresh |-> FALSE, order |-> <<"DeviceManager", "UDPManager">>]
    /\ ch_op = NoChCall

\* ---- handlers ----

\* mutant: the device is recorded before the configuration is consulted
lisu_connect_device_record_first(device_name) ==
    [raised |-> device_name \notin input_devices,
     current_device |-> device_name]

\* LisuManager.connect_device, lisu_handler.py 54-64: ValueError for a name
\* that is not in the configuration, else the name is recorded and True
\* returned
lisu_connect_device(device_name) ==
    [raised |-> device_name \notin input_devices,
     current_device |-> IF device_name \in input_devices
                        THEN device_name ELSE current_device]

\* connect_device, lines 653-686.  device is device_type_combo.currentText(),
\* present is pygame.joystick.get_count() > 0.  With a gamepad present the
\* handle and the previous values are stored (660-666), then self.buttons at
\* 669 raises and 673-674 are not reached.  For the other devices
\* LisuManager.connect_device (lisu_handler.py 54-64) records the device, then
\* self.buttons at 681 raises.
\*   op' tells how the handler ended:
\*   "connect_nogamepad"  no joystick: "No gamepad detected" (676)
\*   "connect_unknown"    LisuManager.connect_device raised ValueError:
\*                        "Error connecting to ..." (686)
\*   "connect_gamepad"    the joystick was acquired (660-666), then
\*                        self.buttons raised: "Error connecting to ..." (686)
\*   "connect_lisu"       LisuManager recorded the device, then self.buttons
\*                        raised: "Error connecting to ..." (686)
connect_device(device, present) ==
    /\ ~closed
    /\ IF device = "Gamepad_0"
       THEN /\ gamepad' = (gamepad \/ present)
            /\ has_prev' = (has_prev \/ present)
            /\ prev_x_axis' = IF present THEN 0 ELSE prev_x_axis
            /\ prev_y_axis' = IF present THEN 0 ELSE prev_y_axis
            /\ current_device' = current_device
            /\ op' = IF present THEN "connect_gamepad" ELSE "connect_nogamepad"
       ELSE /\ current_device' = lisu_connect_device(device).current_device
            /\ op' = IF lisu_connect_device(device).raised
                     THEN "connect_unknown" ELSE "connect_lisu"
            /\ UNCHANGED <<gamepad, has_prev, prev_x_axis, prev_y_axis>>
    /\ sample' = <<>>
    /\ calls' = <<>>
    /\ raw' = <<>>
    /\ UNCHANGED <<managerVars, startupVars>>
    /\ UNCHANGED <<is_reading_input, timer_active, calibVars, has_last_send_time,
                   last_send_time, mappingVars, envVars, now, sent, last_selected>>

\* mutant: the timer is left running when the gamepad is released
disconnect_device_timer_left(device) ==
    /\ ~closed
    /\ IF device = "Gamepad_0" /\ gamepad
       THEN /\ is_reading_input' = FALSE
            /\ timer_active' = timer_active
            /\ gamepad' = FALSE
       ELSE UNCHANGED sessionVars
    /\ op' = "disconnect"
    /\ sample' = <<>>
    /\ raw' = <<>>
    /\ UNCHANGED <<managerVars, startupVars>>
    /\ calls' = <<>>
    /\ UNCHANGED <<calibVars, dispatchVars, mappingVars, envVars, current_device,
                   now, sent, last_selected>>

\* disconnect_device, lines 1164-1184
disconnect_device(device) ==
    /\ ~closed
    /\ IF device = "Gamepad_0" /\ gamepad
       THEN /\ is_reading_input' = FALSE
            /\ timer_active' = FALSE
            /\ gamepad' = FALSE
       ELSE UNCHANGED sessionVars
    /\ op' = "disconnect"
    /\ sample' = <<>>
    /\ raw' = <<>>
    /\ UNCHANGED <<managerVars, startupVars>>
    /\ calls' = <<>>
    /\ UNCHANGED <<calibVars, dispatchVars, mappingVars, envVars, current_device,
                   now, sent, last_selected>>

\* calibrate_device, lines 781-848.  read_ok is whether pygame.event.pump and
\* get_axis return; bx, by are the axes read.  The reset datagram goes through
\* self.udp_socket.sendto, which raises on None and is caught at 811.
\*   op' tells how the handler ended:
\*   "calibrate_done"     the gamepad branch ran to line 819
\*   "calibrate_readerr"  the read at 794-798 raised: 847-848
\*   "calibrate_reset"    the SpaceMouse or Bluetooth_mouse branch: only the
\*                        reset datagram is attempted (821-845)
\*   "calibrate_none"     no branch applies
calibrate_device(device, read_ok, bx, by) ==
    /\ ~closed
    /\ IF device = "Gamepad_0" /\ gamepad
       THEN IF read_ok
            THEN /\ x_offset' = calibration_offset(bx)
                 /\ y_offset' = calibration_offset(by)
                 /\ is_reading_input' = is_reading_input
                 /\ timer_active' = is_reading_input
                 /\ raw' = <<bx, by>>
                 /\ op' = "calibrate_done"
            ELSE /\ is_reading_input' = FALSE
                 /\ timer_active' = FALSE
                 /\ raw' = <<>>
                 /\ op' = "calibrate_readerr"
                 /\ UNCHANGED calibVars
       ELSE /\ raw' = <<>>
            /\ op' = IF device = "Gamepad_0" THEN "calibrate_none" ELSE "calibrate_reset"
            /\ UNCHANGED <<calibVars, is_reading_input, timer_active>>
    /\ sent' = IF udp_socket = "None" \/ Len(sent) >= MaxSent \/ (device = "Gamepad_0" /\ ~(gamepad /\ read_ok))
               THEN sent ELSE Append(sent, [msg |-> "reset", x |-> 0, y |-> 0, z |-> 0, t |-> now])
    /\ sample' = <<>>
    /\ calls' = <<>>
    /\ UNCHANGED <<managerVars, startupVars>>
    /\ UNCHANGED <<gamepad, dispatchVars, mappingVars, envVars, current_device,
                   now, last_selected>>

\* The part the six control_* handlers share once the angle text is read:
\* float(self.rotation_input.text()) raising ValueError ends the handler at
\* "except ValueError"; otherwise send_command is called with the fixed
\* unit vector a, and an exception leaving it is caught at "except Exception".
control_send(name, angle_ok, kind, a) ==
    /\ calls' = IF angle_ok THEN <<Call(a, kind)>> ELSE <<>>
    /\ sent' = IF angle_ok THEN after_send(send_result(kind), a) ELSE sent
    /\ op' = name
    /\ sample' = <<>>
    /\ raw' = <<>>
    /\ UNCHANGED <<managerVars, startupVars>>
    /\ UNCHANGED <<sessionVars, calibVars, dispatchVars, envVars, current_device, now>>

\* control_x_axis, lines 709-723: the flags are written before the angle is read
control_x_axis(angle_ok, kind) ==
    /\ ~closed
    /\ IF gamepad
       THEN x_mapping' = TRUE /\ y_mapping' = FALSE /\ z_mapping' = FALSE
       ELSE UNCHANGED <<x_mapping, y_mapping, z_mapping>>
    /\ UNCHANGED <<yaw_mapping, pitch_mapping, roll_mapping>>
    /\ last_selected' = IF gamepad THEN "x" ELSE last_selected
    /\ control_send("control_x_axis", angle_ok, kind, <<One, 0, 0>>)

\* control_y_axis, lines 725-739
control_y_axis(angle_ok, kind) ==
    /\ ~closed
    /\ IF gamepad
       THEN x_mapping' = FALSE /\ y_mapping' = TRUE /\ z_mapping' = FALSE
       ELSE UNCHANGED <<x_mapping, y_mapping, z_mapping>>
    /\ UNCHANGED <<yaw_mapping, pitch_mapping, roll_mapping>>
    /\ last_selected' = IF gamepad THEN "y" ELSE last_selected
    /\ control_send("control_y_axis", angle_ok, kind, <<0, One, 0>>)

\* control_z_axis, lines 741-755
control_z_axis(angle_ok, kind) ==
    /\ ~closed
    /\ IF gamepad
       THEN x_mapping' = FALSE /\ y_mapping' = FALSE /\ z_mapping' = TRUE
       ELSE UNCHANGED <<x_mapping, y_mapping, z_mapping>>
    /\ UNCHANGED <<yaw_mapping, pitch_mapping, roll_mapping>>
    /\ last_selected' = IF gamepad THEN "z" ELSE last_selected
    /\ control_send("control_z_axis", angle_ok, kind, <<0, 0, One>>)

\* control_yaw, lines 1297-1312: the angle is read before the flags are written
control_yaw(angle_ok, kind) ==
    /\ ~closed
    /\ IF angle_ok /\ gamepad
       THEN yaw_mapping' = TRUE /\ pitch_mapping' = FALSE /\ roll_mapping' = FALSE
       ELSE UNCHANGED <<yaw_mapping, pitch_mapping, roll_mapping>>
    /\ UNCHANGED <<x_mapping, y_mapping, z_mapping>>
    /\ last_selected' = IF angle_ok /\ gamepad THEN "yaw" ELSE last_selected
    /\ control_send("control_yaw", angle_ok, kind, <<0, One, 0>>)

\* control_pitch, lines 1314-1329
control_pitch(angle_ok, kind) ==
    /\ ~closed
    /\ IF angle_ok /\ gamepad
       THEN yaw_mapping' = FALSE /\ pitch_mapping' = TRUE /\ roll_mapping' = FALSE
       ELSE UNCHANGED <<yaw_mapping, pitch_mapping, roll_mapping>>
    /\ UNCHANGED <<x_mapping, y_mapping, z_mapping>>
    /\ last_selected' = IF angle_ok /\ gamepad THEN "pitch" ELSE last_selected
    /\ control_send("control_pitch", angle_ok, kind, <<One, 0, 0>>)

\* control_roll, lines 1331-1346
control_roll(angle_ok, kind) ==
    /\ ~closed
    /\ IF angle_ok /\ gamepad
       THEN yaw_mapping' = FALSE /\ pitch_mapping' = FALSE /\ roll_mapping' = TRUE
       ELSE UNCHANGED <<yaw_mapping, pitch_mapping, roll_mapping>>
    /\ UNCHANGED <<x_mapping, y_mapping, z_mapping>>
    /\ last_selected' = IF angle_ok /\ gamepad THEN "roll" ELSE last_selected
    /\ control_send("control_roll", angle_ok, kind, <<0, 0, One>>)

\* read_gamepad_input, lines 1186-1259, the timer callback.  rx, ry are the
\* axes read, read_ok is whether pygame.event.pump and get_axis return,
\* angle_ok whether the rotation text parses, kind what cmd_combo names.
\*   op' tells how the tick ended:
\*   "tick_skip"     returned at 1189
\*   "tick_readerr"  the read raised: 1255-1259
\*   "tick_quiet"    a gate of 1220 failed
\*   "tick_dropped"  gates passed, time_diff < 0.1
\*   "tick_badangle" ValueError at 1224, caught at 1247
\*   "tick_call"     send_command was called and returned
\*   "tick_raised"   send_command raised: caught at 1255, reading ends
read_gamepad_input(rx, ry, read_ok, angle_ok, kind) ==
    LET x == apply_offset(rx, x_offset)
        y == apply_offset(ry, y_offset)
        px == IF has_prev THEN prev_x_axis ELSE x
        py == IF has_prev THEN prev_y_axis ELSE y
        lst == IF has_last_send_time THEN last_send_time ELSE now
        gates == shouldSend(x, y, px, py)
        allowed == gates /\ rate_limit_ok(now - lst)
        called == allowed /\ angle_ok
        res == send_result(kind)
        a == mapping_args(x, y)
    IN
    /\ ~closed
    /\ IF ~pipeline_guard
       THEN /\ op' = "tick_skip"
            /\ sample' = <<>>
            /\ raw' = <<>>
            /\ calls' = <<>>
            /\ UNCHANGED <<sessionVars, dispatchVars, sent>>
       ELSE IF ~read_ok
       THEN /\ op' = "tick_readerr"
            /\ sample' = <<>>
            /\ raw' = <<>>
            /\ calls' = <<>>
            /\ is_reading_input' = FALSE
            /\ timer_active' = FALSE
            /\ UNCHANGED <<gamepad, dispatchVars, sent>>
       ELSE IF called /\ res = "raised"
       THEN /\ op' = "tick_raised"
            /\ sample' = <<x, y>>
            /\ raw' = <<rx, ry>>
            /\ calls' = <<Call(a, kind)>>
            /\ is_reading_input' = FALSE
            /\ timer_active' = FALSE
            /\ has_prev' = TRUE
            /\ prev_x_axis' = px
            /\ prev_y_axis' = py
            /\ has_last_send_time' = TRUE
            /\ last_send_time' = lst
            /\ UNCHANGED <<gamepad, sent>>
       ELSE /\ op' = IF ~gates THEN "tick_quiet"
                     ELSE IF ~allowed THEN "tick_dropped"
                     ELSE IF ~angle_ok THEN "tick_badangle"
                     ELSE "tick_call"
            /\ sample' = <<x, y>>
            /\ raw' = <<rx, ry>>
            /\ calls' = IF called THEN <<Call(a, kind)>> ELSE <<>>
            /\ sent' = IF called THEN after_send(res, a) ELSE sent
            /\ has_last_send_time' = TRUE
            /\ last_send_time' = IF called THEN stamp_after_send(res = "sent", now, lst) ELSE lst
            /\ has_prev' = TRUE
            /\ prev_x_axis' = stored_prev(gates, x, px)
            /\ prev_y_axis' = stored_prev(gates, y, py)
            /\ UNCHANGED sessionVars
    /\ UNCHANGED <<calibVars, mappingVars, envVars, current_device, now, last_selected>>
    /\ UNCHANGED <<managerVars, startupVars>>

\* closeEvent, lines 1261-1277: self.udp_socket.close() raises on None and the
\* bare except swallows it; self.gamepad keeps the handle object
closeEvent ==
    /\ ~closed
    /\ closed' = TRUE
    /\ is_reading_input' = FALSE
    /\ timer_active' = FALSE
    /\ op' = "close"
    /\ sample' = <<>>
    /\ calls' = <<>>
    /\ raw' = <<>>
    /\ UNCHANGED <<managerVars, startupVars>>
    /\ UNCHANGED <<config_has_commands, udp_socket, input_devices, gamepad, calibVars, dispatchVars,
                   mappingVars, current_device, now, sent, last_selected>>

\* the wall clock read by datetime.now() at 1207 moves on
Elapse ==
    /\ ~closed
    /\ now < MaxElapse * ClockStep
    /\ now' = now + ClockStep
    /\ UNCHANGED <<sessionVars, calibVars, dispatchVars, mappingVars, envVars,
                   current_device, sent, op, sample, calls, last_selected, raw>>
    /\ UNCHANGED <<managerVars, startupVars>>

\* ---- UDPManager (udp_manager.py), DeviceManager (device_manager.py) and
\* ---- LisuManager (lisu_handler.py) called directly

\* the window is left alone by the calls on the managers
WindowUnchanged ==
    UNCHANGED <<sessionVars, calibVars, dispatchVars, mappingVars, envVars,
                now, sent, last_selected>>

\* connect, udp_manager.py 35-42: a new socket object replaces whatever
\* self.socket held; create_ok is whether socket.socket returns
connect(create_ok) ==
    /\ sockets_created < MaxSockets
    /\ socket' = IF create_ok THEN sockets_created + 1 ELSE socket
    /\ sockets_created' = IF create_ok THEN sockets_created + 1 ELSE sockets_created
    /\ um_op' = [NoCall EXCEPT !.name = "connect",
                               !.ret = IF create_ok THEN "True" ELSE "False",
                               !.created = IF create_ok THEN "ok" ELSE "failed",
                               !.handle = socket']
    /\ op' = "um_connect"
    /\ sample' = <<>> /\ calls' = <<>> /\ raw' = <<>>
    /\ WindowUnchanged
    /\ UNCHANGED startupVars
    /\ UNCHANGED <<target_ip, target_port, dm_current_device, current_device>>

\* disconnect, udp_manager.py 44-48
disconnect ==
    /\ socket' = 0
    /\ um_op' = [NoCall EXCEPT !.name = "disconnect"]
    /\ op' = "um_disconnect"
    /\ sample' = <<>> /\ calls' = <<>> /\ raw' = <<>>
    /\ WindowUnchanged
    /\ UNCHANGED startupVars
    /\ UNCHANGED <<sockets_created, target_ip, target_port, dm_current_device, current_device>>

\* mutant: no socket is created on demand
socket_for_send_no_reconnect(create_ok) == socket

\* lines 52-54: the socket send_message goes on with, 0 when it returns
\* False because connect() failed
socket_for_send(create_ok) ==
    IF socket # 0 THEN socket
    ELSE IF create_ok THEN sockets_created + 1 ELSE 0

\* mutant: a failed transmit closes the socket
socket_after_transmit_close(s, tx_ok) == IF tx_ok THEN s ELSE 0

\* lines 56-61: self.socket after sendto on s returned (tx_ok) or raised
socket_after_transmit(s, tx_ok) == s

\* send_message, udp_manager.py 50-61; create_ok is whether socket.socket
\* returns, tx_ok whether sendto returns
send_message(create_ok, tx_ok) ==
    LET s == socket_for_send(create_ok)
        attempted == s # 0
    IN
    /\ socket # 0 \/ sockets_created < MaxSockets
    /\ socket' = IF attempted THEN socket_after_transmit(s, tx_ok) ELSE socket
    /\ sockets_created' = IF s # socket THEN sockets_created + 1 ELSE sockets_created
    /\ um_op' = [name |-> "send_message",
                 ret |-> IF attempted /\ tx_ok THEN "True" ELSE "False",
                 created |-> IF socket # 0 THEN "no"
                             ELSE IF create_ok THEN "ok" ELSE "failed",
                 tx |-> IF ~attempted THEN "none"
                        ELSE IF tx_ok THEN "ok" ELSE "failed",
                 handle |-> s,
                 ip |-> IF attempted THEN target_ip ELSE "",
                 port |-> IF attempted THEN target_port ELSE 0]
    /\ op' = "um_send_message"
    /\ sample' = <<>> /\ calls' = <<>> /\ raw' = <<>>
    /\ WindowUnchanged
    /\ UNCHANGED startupVars
    /\ UNCHANGED <<target_ip, target_port, dm_current_device, current_device>>

\* the document after lines 68-78 of set_target: its "udp" section is
\* replaced when the file exists, and no file is created when it does not
saved_target(ip, port) ==
    IF config_file.exists THEN [config_file EXCEPT !.udp = <<ip, port>>] ELSE config_file

\* mutant: the socket is closed so that the next send reopens it
set_target_reopen(ip, port) ==
    /\ target_ip' = ip
    /\ target_port' = port
    /\ socket' = 0
    /\ um_op' = [NoCall EXCEPT !.name = "set_target", !.handle = socket,
                               !.ip = ip, !.port = port]
    /\ op' = "um_set_target"
    /\ sample' = <<>> /\ calls' = <<>> /\ raw' = <<>>
    /\ WindowUnchanged
    /\ config_file' = saved_target(ip, port)
    /\ UNCHANGED <<device_config, command_config, startup, ch_op>>
    /\ UNCHANGED <<sockets_created, dm_current_device, current_device>>

\* set_target, udp_manager.py 63-78: the two fields, then the config file
set_target(ip, port) ==
    /\ target_ip' = ip
    /\ target_port' = port
    /\ um_op' = [NoCall EXCEPT !.name = "set_target", !.handle = socket,
                               !.ip = ip, !.port = port]
    /\ op' = "um_set_target"
    /\ sample' = <<>> /\ calls' = <<>> /\ raw' = <<>>
    /\ WindowUnchanged
    /\ config_file' = saved_target(ip, port)
    /\ UNCHANGED <<device_config, command_config, startup, ch_op>>
    /\ UNCHANGED <<socket, sockets_created, dm_current_device, current_device>>

\* DeviceManager.connect_device, device_manager.py 89-128, on a constructed
\* manager:
\*   "dm_connect_keyerror"  the document held has no "input_devices" section
\*                          and line 91 raised KeyError
\*   "dm_connect_unknown"   ValueError for a name that is not configured
\*   "dm_connect_ok"        the device is recorded and True returned
DeviceManager_connect_device(device_name) ==
    LET res == IF ~device_config.input_devices THEN "dm_connect_keyerror"
               ELSE IF device_name \notin DmDevices THEN "dm_connect_unknown"
               ELSE "dm_connect_ok"
    IN
    /\ device_config.exists
    /\ dm_current_device' = IF res = "dm_connect_ok" THEN device_name ELSE dm_current_device
    /\ op' = res
    /\ sample' = <<>> /\ calls' = <<>> /\ raw' = <<>>
    /\ WindowUnchanged
    /\ UNCHANGED startupVars
    /\ UNCHANGED <<socket, sockets_created, target_ip, target_port, um_op, current_device>>

\* mutant: the transport is closed with the device
DeviceManager_disconnect_device_closing ==
    /\ dm_current_device' = "None"
    /\ socket' = 0
    /\ op' = "dm_disconnect"
    /\ sample' = <<>> /\ calls' = <<>> /\ raw' = <<>>
    /\ WindowUnchanged
    /\ UNCHANGED startupVars
    /\ UNCHANGED <<sockets_created, target_ip, target_port, um_op, current_device>>

\* DeviceManager.disconnect_device, device_manager.py 130-135
DeviceManager_disconnect_device ==
    /\ dm_current_device' = "None"
    /\ op' = "dm_disconnect"
    /\ sample' = <<>> /\ calls' = <<>> /\ raw' = <<>>
    /\ WindowUnchanged
    /\ UNCHANGED startupVars
    /\ UNCHANGED <<socket, sockets_created, target_ip, target_port, um_op, current_device>>

\* LisuManager.connect_device called by name, lisu_handler.py 54-64
LisuManager_connect_device(device_name) ==
    /\ current_device' = lisu_connect_device(device_name).current_device
    /\ op' = IF lisu_connect_device(device_name).raised
             THEN "lisu_connect_unknown" ELSE "lisu_connect_ok"
    /\ sample' = <<>> /\ calls' = <<>> /\ raw' = <<>>
    /\ WindowUnchanged
    /\ UNCHANGED startupVars
    /\ UNCHANGED managerVars

\* send_command as the handlers that fix the command type call it, with a
\* scale (reset_position, line 775) or with three numbers only (move_forward,
\* line 762; reset_position, line 772); an exception leaving it is caught by
\* the caller
send_command(kind, a, scale) ==
    /\ ~closed
    /\ calls' = <<CallWith(a, kind, scale)>>
    /\ sent' = after_send(send_result_for(kind, scale), a)
    /\ op' = "send_command"
    /\ sample' = <<>> /\ raw' = <<>>
    /\ UNCHANGED <<sessionVars, calibVars, dispatchVars, mappingVars, envVars,
                   current_device, now, last_selected>>
    /\ UNCHANGED <<managerVars, startupVars>>

\* the device types and command templates of LisuManager's default
\* configuration, lisu_handler.py 19-37
LisuType(device_name) == IF device_name = "Bluetooth_mouse" THEN "mouse" ELSE "3dconnexion"
LisuCommands(type) ==
    IF type = "mouse" THEN <<"addrotation", "%.3f", "0.0", "0.0", "%s">>
    ELSE <<"addrotation", "%.3f", "%.3f", "%.3f", "%s">>

\* LisuManager.send_command, lisu_handler.py 73-92: values holds x, y, z
\*   "lisu_send_noconnect"  RuntimeError('No device connected') (75-76)
\*   "lisu_send_typeerror"  the % of 82-87 raised TypeError
\*   "lisu_send_ok"         True returned
LisuManager_send_command(values) ==
    LET f == py_format(LisuCommands(LisuType(current_device)),
                       <<Num(values[1]), Num(values[2]), Num(values[3]), Num(Duration)>>)
    IN
    /\ op' = IF current_device = "None" THEN "lisu_send_noconnect"
             ELSE IF f.ok THEN "lisu_send_ok" ELSE "lisu_send_typeerror"
    /\ sample' = <<>> /\ calls' = <<>> /\ raw' = <<>>
    /\ WindowUnchanged
    /\ UNCHANGED startupVars
    /\ UNCHANGED current_device
    /\ UNCHANGED managerVars

\* LisuManager.disconnect_device, lisu_handler.py 66-71
LisuManager_disconnect_device ==
    /\ current_device' = "None"
    /\ op' = "lisu_disconnect"
    /\ sample' = <<>> /\ calls' = <<>> /\ raw' = <<>>
    /\ WindowUnchanged
    /\ UNCHANGED startupVars
    /\ UNCHANGED managerVars

\* ---- construction of DeviceManager, CommandHandler and UDPManager, each of
\* ---- which reads data/config.json or, when it is absent, writes it

\* the built-in table of CommandHandler.load_config, command_handler.py 18-39
default_axes(device_type) ==
    IF device_type = "mouse" THEN {"x_axis", "y_axis", "z_axis"}
    ELSE IF device_type = "3dconnexion"
         THEN {"x_axis", "y_axis", "z_axis", "rx_axis", "ry_axis", "rz_axis"}
    ELSE IF device_type = "gamepad" THEN {"axis_0", "axis_1", "axis_2"}
    ELSE {}
default_template(axis) ==
    IF axis \in {"x_axis", "rx_axis", "axis_0"}
    THEN <<"addrotation", "%.3f", "0.0", "0.0", "%s">>
    ELSE IF axis \in {"y_axis", "ry_axis", "axis_1"}
    THEN <<"addrotation", "0.0", "%.3f", "0.0", "%s">>
    ELSE <<"addrotation", "0.0", "0.0", "%.3f", "%s">>

\* what load_config keeps of an existing document, command_handler.py 16:
\* config.get("commands", {})
\*   "nested"   a dict whose "commands" key holds the table
\*   "types"    the table itself
\*   "formats"  the window's section
\*   "empty"    {}
loaded_commands(doc) ==
    IF doc.commands = "wrapped" THEN "nested"
    ELSE IF doc.commands = "absent" THEN "empty"
    ELSE doc.commands

\* process_input, command_handler.py 57-61
process_input(raw_value) ==
    IF raw_value > One THEN One ELSE IF raw_value < -One THEN -One ELSE raw_value

\* format_command, command_handler.py 45-55, on command_config cc: the
\* exception raised ("none" when it returns) and the string returned
format_command(cc, device_type, axis, value, duration) ==
    LET f == py_format(default_template(axis), <<Num(value), Num(duration)>>) IN
    IF cc # "nested" THEN [raised |-> "KeyError", command |-> <<>>]
    ELSE IF default_axes(device_type) = {} THEN [raised |-> "ValueError", command |-> <<>>]
    ELSE IF axis \notin default_axes(device_type)
    THEN [raised |-> "ValueError", command |-> <<>>]
    ELSE IF ~f.ok THEN [raised |-> "TypeError", command |-> <<>>]
    ELSE [raised |-> "none", command |-> f.text]

\* the constructor is recorded
Constructed(name) ==
    /\ Len(startup.order) < MaxStartup
    /\ startup' = [startup EXCEPT !.order = Append(@, name)]
    /\ op' = "construct"
    /\ sample' = <<>> /\ calls' = <<>> /\ raw' = <<>>
    /\ WindowUnchanged
    /\ UNCHANGED <<current_device, sockets_created, um_op, ch_op>>

\* DeviceManager.__init__ and load_config, device_manager.py 8-41: the whole
\* document when the file exists, else the default devices, written out
DeviceManager_init ==
    /\ Constructed("DeviceManager")
    /\ dm_current_device' = "None"
    /\ device_config' = IF config_file.exists THEN config_file
                        ELSE Doc(TRUE, "absent", <<>>)
    /\ config_file' = IF config_file.exists THEN config_file
                      ELSE Doc(TRUE, "absent", <<>>)
    /\ UNCHANGED <<command_config, socket, target_ip, target_port>>

\* CommandHandler.__init__ and load_config, command_handler.py 6-43: the
\* document's "commands" section when the file exists, else the default
\* dict, written out as it is
CommandHandler_init ==
    /\ Constructed("CommandHandler")
    /\ command_config' = IF config_file.exists THEN loaded_commands(config_file)
                         ELSE "nested"
    /\ config_file' = IF config_file.exists THEN config_file
                      ELSE Doc(FALSE, "types", <<>>)
    /\ UNCHANGED <<device_config, dm_current_device, socket, target_ip, target_port>>

\* UDPManager.__init__ and load_config, udp_manager.py 7-33: the target of
\* the document's "udp" section, the default target without one
UDPManager_init ==
    /\ Constructed("UDPManager")
    /\ socket' = 0
    /\ target_ip' = IF config_file.exists /\ config_file.udp # <<>>
                    THEN config_file.udp[1] ELSE "127.0.0.1"
    /\ target_port' = IF config_file.exists /\ config_file.udp # <<>>
                      THEN config_file.udp[2] ELSE 7755
    /\ config_file' = IF config_file.exists THEN config_file
                      ELSE Doc(FALSE, "absent", <<"127.0.0.1", 7755>>)
    /\ UNCHANGED <<device_config, command_config, dm_current_device>>

\* CommandHandler.format_command called directly on a constructed handler,
\* with the default duration (command_handler.py 45)
CommandHandler_format_command(device_type, axis, value) ==
    LET f == format_command(command_config, device_type, axis, value, One) IN
    /\ command_config # "None"
    /\ ch_op' = [name |-> "format_command", device_type |-> device_type, axis |-> axis,
                 raised |-> f.raised,
                 ret |-> IF f.raised = "none" THEN "str" ELSE "none",
                 command |-> f.command]
    /\ op' = "ch_format_command"
    /\ sample' = <<>> /\ calls' = <<>> /\ raw' = <<>>
    /\ WindowUnchanged
    /\ UNCHANGED <<managerVars, current_device, config_file, device_config,
                   command_config, startup>>

\* CommandHandler.send_command, command_handler.py 63-79: the value is
\* clamped, the command formatted, and any exception turned into False
CommandHandler_send_command(device_type, axis, value) ==
    LET f == format_command(command_config, device_type, axis, process_input(value), One) IN
    /\ command_config # "None"
    /\ ch_op' = [name |-> "send_command", device_type |-> device_type, axis |-> axis,
                 raised |-> "none",
                 ret |-> IF f.raised = "none" THEN "True" ELSE "False",
                 command |-> f.command]
    /\ op' = "ch_send_command"
    /\ sample' = <<>> /\ calls' = <<>> /\ raw' = <<>>
    /\ WindowUnchanged
    /\ UNCHANGED <<managerVars, current_device, config_file, device_config,
                   command_config, startup>>

\* what cmd_combo can name: its items come from the configuration (line
\* 235), so without a commands table the combo is empty
Kinds == IF config_has_commands THEN CmdKinds ELSE {"unknown"}

Next ==
    \/ \E d \in Devices, present \in BOOLEAN : connect_device(d, present)
    \/ \E d \in Devices : disconnect_device(d)
    \/ \E d \in Devices, ok \in BOOLEAN, bx \in CalX, by \in CalY : calibrate_device(d, ok, bx, by)
    \/ \E ok \in BOOLEAN, k \in Kinds : control_x_axis(ok, k)
    \/ \E ok \in BOOLEAN, k \in Kinds : control_y_axis(ok, k)
    \/ \E ok \in BOOLEAN, k \in Kinds : control_z_axis(ok, k)
    \/ \E ok \in BOOLEAN, k \in Kinds : control_yaw(ok, k)
    \/ \E ok \in BOOLEAN, k \in Kinds : control_pitch(ok, k)
    \/ \E ok \in BOOLEAN, k \in Kinds : control_roll(ok, k)
    \/ \E rx \in ModeX, ry \in ModeY, rok \in BOOLEAN, aok \in BOOLEAN, k \in Kinds :
          read_gamepad_input(rx, ry, rok, aok, k)
    \/ closeEvent
    \/ (now < MaxIdleElapse * ClockStep /\ Elapse)

\* the handlers that touch the session, the calibration and the dispatch state
NextReading ==
    \/ \E present \in BOOLEAN : connect_device("Gamepad_0", present)
    \/ \E d \in {"Gamepad_0", "SpaceMouse"} : disconnect_device(d)
    \/ \E ok \in BOOLEAN, bx \in CalX, by \in CalY : calibrate_device("Gamepad_0", ok, bx, by)
    \/ \E rx \in RawX, ry \in RawY, rok \in BOOLEAN, aok \in BOOLEAN, k \in Kinds :
          read_gamepad_input(rx, ry, rok, aok, k)
    \/ closeEvent
    \/ Elapse

\* the handlers that touch the mapping mode, and the tick that reads it
NextModes ==
    \/ \E d \in {"Gamepad_0", "SpaceMouse"} : disconnect_device(d)
    \/ \E ok \in BOOLEAN, k \in Kinds : control_x_axis(ok, k)
    \/ \E ok \in BOOLEAN, k \in Kinds : control_y_axis(ok, k)
    \/ \E ok \in BOOLEAN, k \in Kinds : control_z_axis(ok, k)
    \/ \E ok \in BOOLEAN, k \in Kinds : control_yaw(ok, k)
    \/ \E ok \in BOOLEAN, k \in Kinds : control_pitch(ok, k)
    \/ \E ok \in BOOLEAN, k \in Kinds : control_roll(ok, k)
    \/ \E rx \in ModeX, ry \in ModeY, aok \in BOOLEAN, k \in Kinds :
          read_gamepad_input(rx, ry, TRUE, aok, k)
    \/ Elapse

\* the managers next to the window's connect and disconnect
NextComponents ==
    \/ \E ok \in BOOLEAN : connect(ok)
    \/ disconnect
    \/ \E cok \in BOOLEAN, tok \in BOOLEAN : send_message(cok, tok)
    \/ \E ip \in TargetIps, port \in TargetPorts : set_target(ip, port)
    \/ \E d \in Devices : DeviceManager_connect_device(d)
    \/ DeviceManager_disconnect_device
    \/ \E d \in Devices : LisuManager_connect_device(d)
    \/ \E d \in Devices, present \in BOOLEAN : connect_device(d, present)
    \/ \E d \in Devices : disconnect_device(d)

\* arguments the fixed-type handlers pass
CmdArgs == {<<0, 0, 0>>, <<0, 0, One>>, <<11, -10, 0>>}

\* send_command of the window and of LisuManager, called directly
NextCommands ==
    \/ \E k \in AllKinds, a \in CmdArgs, scale \in {Num(Angle), NoneArg} :
          send_command(k, a, scale)
    \/ \E d \in Devices : LisuManager_connect_device(d)
    \/ LisuManager_disconnect_device
    \/ \E a \in CmdArgs : LisuManager_send_command(a)

\* device types, axes and values CommandHandler is called with
ChTypes == {"mouse", "3dconnexion", "gamepad", "joystick"}
ChAxes == {"x_axis", "ry_axis", "axis_1", "w_axis"}
ChValues == {150}

\* the constructors in any order, and the calls on what they built
NextStartup ==
    \/ DeviceManager_init
    \/ CommandHandler_init
    \/ UDPManager_init
    \/ \E d \in Devices : DeviceManager_connect_device(d)
    \/ DeviceManager_disconnect_device
    \/ \E t \in ChTypes, a \in ChAxes, v \in ChValues : CommandHandler_format_command(t, a, v)
    \/ \E t \in ChTypes, a \in ChAxes, v \in ChValues : CommandHandler_send_command(t, a, v)

\* the whole window, from construction
Spec == Init /\ [][Next]_vars

\* the per-tick pipeline, from an armed session
SpecReading == InitReading /\ [][NextReading]_vars

\* mode selection and the tick, from an armed session
SpecModes == InitReading /\ [][NextModes]_vars

\* the two send_command methods, from construction
SpecCommands == Init /\ [][NextCommands]_vars

\* the three components constructed in any order over one data/config.json
SpecStartup == InitStartup /\ [][NextStartup]_vars

\* the transport and device managers, with the window's connect and disconnect
SpecComponents == InitComponents /\ [][NextComponents]_vars

\* ---- vocabulary of the properties ----

TickOps == {"tick_skip", "tick_readerr", "tick_quiet", "tick_dropped",
            "tick_badangle", "tick_call", "tick_raised"}

\* a step taken by the timer callback
TickStep == now' = now /\ op' \in TickOps

\* the tick's sample passed both gates
GatesPassed == {"tick_dropped", "tick_badangle", "tick_call", "tick_raised"}

\* the tick ran to its last line (1253)
Completed == {"tick_quiet", "tick_dropped", "tick_badangle", "tick_call"}

ActiveFlags == {m \in {"x", "y", "z", "yaw", "pitch", "roll"} :
                  \/ m = "x" /\ x_mapping
                  \/ m = "y" /\ y_mapping
                  \/ m = "z" /\ z_mapping
                  \/ m = "yaw" /\ yaw_mapping
                  \/ m = "pitch" /\ pitch_mapping
                  \/ m = "roll" /\ roll_mapping}

CallArgs(c) == <<c.x, c.y, c.z>>

\* no datagram left the window during the SendInterval before now
NoRecentTransmission == sent = <<>> \/ now - sent[Len(sent)].t >= SendInterval

\* ---- claims ----

C3_NoPipelineUnlessReading ==
    [][(TickStep /\ ~(is_reading_input /\ gamepad))
        => /\ op' = "tick_skip"
           /\ sample' = <<>>
           /\ calls' = <<>>
           /\ UNCHANGED <<sessionVars, calibVars, dispatchVars, mappingVars, sent>>]_vars

\* C3 witness: ticks ran, the gamepad was disconnected, and the callback fired again
C3_Witness == op = "tick_skip" /\ ~gamepad /\ ~is_reading_input /\ has_last_send_time

\* C4 (as claimed): whenever disconnect has been invoked, whatever device the
\* selection names, the session is Disconnected: no handle, reading flag
\* false, timer stopped.
C4_DisconnectReleases ==
    op = "disconnect" => (~gamepad /\ ~is_reading_input /\ ~timer_active)

\* C5 (as claimed): at most one of the six mapping flags is set.
C5_AtMostOneMode == Cardinality(ActiveFlags) <= 1

\* the arguments a tick sends when m alone is the mode, by lines 1228-1242
ArgsOfMode(m, x, y) ==
    CASE m = "x" -> <<x, 0, 0>>
      [] m = "y" -> <<0, -y, 0>>
      [] m = "z" -> <<0, 0, -y>>
      [] m = "yaw" -> <<0, x, 0>>
      [] m = "pitch" -> <<-y, 0, 0>>
      [] m = "roll" -> <<0, 0, x>>
      [] OTHER -> <<x, -y, 0>>

C7_SendGating ==
    [][(TickStep /\ calls' # <<>>)
        => /\ has_prev
           /\ ~(Abs(sample'[1]) <= Threshold /\ Abs(sample'[2]) <= Threshold)
           /\ ~(sample'[1] = prev_x_axis /\ sample'[2] = prev_y_axis)
           /\ \/ Abs(sample'[1] - prev_x_axis) > MoveDelta
              \/ Abs(sample'[2] - prev_y_axis) > MoveDelta]_vars

\* C7 witness: a tick has called send_command
C7_Witness == op = "tick_call" /\ calls # <<>> /\ Abs(sample[1]) > Threshold

FirstActive ==
    IF x_mapping THEN "x" ELSE IF y_mapping THEN "y" ELSE IF z_mapping THEN "z"
    ELSE IF yaw_mapping THEN "yaw" ELSE IF pitch_mapping THEN "pitch"
    ELSE IF roll_mapping THEN "roll" ELSE "none"

C10_LazySocket ==
    \A i \in 1..Len(calls) :
        calls[i].kind \in {"fmt3", "fmt4"}
            => (calls[i].res = "sent" /\ udp_socket = "open" /\ sent # <<>>)

\* ---- claims on the transport and the device managers ----

\* C11: a send_message made while no socket is open creates one, unless the
\* creation fails, and attempts the transmit on it; after a send_message that
\* returned True the socket is open; send_message returns False only when
\* the creation or the transmit failed, and transmits nothing only when the
\* creation failed.
C11_ReconnectOnDemand ==
    [][op' = "um_send_message" =>
        /\ (socket = 0 /\ um_op'.created # "failed")
             => /\ um_op'.created = "ok"
                /\ socket' # 0 /\ socket' # socket
                /\ um_op'.tx # "none"
                /\ um_op'.handle = socket'
        /\ um_op'.ret = "True" => (socket' # 0 /\ um_op'.tx = "ok")
        /\ um_op'.ret = "False" => (um_op'.created = "failed" \/ um_op'.tx = "failed")
        /\ um_op'.tx = "none" => um_op'.created = "failed"]_vars

\* C11 witness: after a disconnect, a send_message created the second socket
\* and transmitted on it
C11_Witness ==
    /\ op = "um_send_message"
    /\ um_op.created = "ok" /\ um_op.ret = "True"
    /\ sockets_created = MaxSockets /\ socket = MaxSockets

\* C12: a send_message whose transmit fails returns False, leaves the socket
\* it used open as self.socket, and a send_message that follows attempts the
\* transmit again on that socket.
C12_TransmitFailureKeepsSocket ==
    [][/\ (op' = "um_send_message" /\ um_op'.tx = "failed")
            => /\ um_op'.ret = "False"
               /\ socket' # 0 /\ socket' = um_op'.handle
               /\ socket # 0 => socket' = socket
       /\ (op = "um_send_message" /\ um_op.tx = "failed" /\ op' = "um_send_message")
            => (um_op'.tx # "none" /\ um_op'.handle = um_op.handle)]_vars

\* C12 witness: a transmit failed on a socket that was already open, and the
\* socket is still the one held
C12_Witness ==
    /\ op = "um_send_message"
    /\ um_op.tx = "failed" /\ um_op.created = "no"
    /\ socket = um_op.handle /\ socket # 0

\* C13: set_target leaves the socket as it is, open or not, and stores the
\* target; a send_message that transmits does so to the target last set, on
\* the socket that was open if one was.
C13_SetTargetKeepsSocket ==
    [][/\ op' = "um_set_target"
            => /\ socket' = socket /\ sockets_created' = sockets_created
               /\ target_ip' = um_op'.ip /\ target_port' = um_op'.port
       /\ (op' = "um_send_message" /\ um_op'.tx # "none")
            => /\ um_op'.ip = target_ip /\ um_op'.port = target_port
               /\ socket # 0 => um_op'.handle = socket
       /\ (op = "um_set_target" /\ op' = "um_send_message" /\ um_op'.tx # "none")
            => (um_op'.ip = um_op.ip /\ um_op'.port = um_op.port)]_vars

\* C13 witness: set_target("10.0.0.5", 9000) was called on an open socket,
\* which is still the one held
C13_Witness ==
    /\ op = "um_set_target"
    /\ um_op.ip = "10.0.0.5" /\ um_op.port = 9000
    /\ um_op.handle # 0 /\ socket = um_op.handle

\* C14: a device disconnect, by the window or by DeviceManager, leaves the
\* transport as it was: the socket of UDPManager, the target and the socket
\* attribute of the window.
C14_DisconnectKeepsTransport ==
    [][op' \in {"disconnect", "dm_disconnect"}
        => UNCHANGED <<socket, sockets_created, target_ip, target_port, udp_socket>>]_vars

\* C14 witness: the gamepad was released while a socket was open
C14_Witness == op = "disconnect" /\ has_prev /\ ~gamepad /\ socket # 0

\* C15 (as claimed): once disconnect has released the gamepad both
\* calibration offsets are 0.
C15_DisconnectResetsOffsets ==
    (op = "disconnect" /\ ~gamepad) => (x_offset = 0 /\ y_offset = 0)

C17_CalibrateOnlyConnected ==
    [][(op' \in {"calibrate_done", "calibrate_readerr", "calibrate_reset", "calibrate_none"}
         /\ ~gamepad /\ current_device = "None")
        => (UNCHANGED calibVars /\ op' = "calibrate_none")]_vars

\* C18: calibrate stores the negated baseline as offset, so the offset is the
\* same whenever the baseline is; a tick's filtered sample is raw + offset
\* on each axis; so a tick that reads the raw values the offsets were
\* captured at filters them to (0, 0).
C18_CalibrationRoundTrip ==
    /\ [](op = "calibrate_done" => (x_offset = -raw[1] /\ y_offset = -raw[2]))
    /\ [][(TickStep /\ sample' # <<>>)
            => /\ sample' = <<raw'[1] + x_offset, raw'[2] + y_offset>>
               /\ (op = "calibrate_done" /\ raw' = raw) => sample' = <<0, 0>>]_vars

\* C18 witness: a tick read the off-centre raw values the offsets were
\* captured at and filtered them to zero
C18_Witness ==
    /\ op = "tick_quiet"
    /\ raw = <<11, -10>> /\ x_offset = -11 /\ y_offset = 10
    /\ sample = <<0, 0>>

\* C19 (as claimed): once connect has acquired the gamepad the reading flag
\* is set and the timer is armed.
C19_ConnectStartsReading ==
    op = "connect_gamepad" => (gamepad /\ is_reading_input /\ timer_active)

\* the ways a connect ends in failure
FailedConnect == {"connect_nogamepad", "connect_unknown",
                  "lisu_connect_unknown", "dm_connect_unknown"}

\* C20: a connect that fails (no joystick, or a name that is not configured)
\* acquires nothing: the handle, the reading flag, the timer and the current
\* device of LisuManager and of DeviceManager are as before, so a session
\* that was Disconnected still is; the failure is reported by a status
\* message or a ValueError.
C20_FailedConnectChangesNothing ==
    [][op' \in FailedConnect
        => /\ UNCHANGED <<gamepad, is_reading_input, timer_active,
                          current_device, dm_current_device>>
           /\ ~gamepad => (~gamepad' /\ ~is_reading_input')]_vars

\* C20 witness: the window's connect to a device that is not configured
\* failed and the device connected before is still the current one
C20_Witness ==
    /\ op = "connect_unknown"
    /\ current_device = "SpaceMouse"
    /\ "Bluetooth_mouse" \notin input_devices

\* ---- claims on errors and on the session flags ----

C27_SessionFlagsConsistent ==
    /\ timer_active <=> is_reading_input
    /\ is_reading_input => gamepad

\* C27 witness: reading was suspended and restored by a calibration, and the
\* flags agree
C27_Witness ==
    /\ op = "calibrate_done"
    /\ is_reading_input /\ timer_active /\ gamepad
    /\ x_offset # 0

ControlOps == {"control_x_axis", "control_y_axis", "control_z_axis",
               "control_yaw", "control_pitch", "control_roll"}

\* C29 (as claimed): a mode selection whose angle text does not parse (so
\* send_command is not called) sends nothing and leaves the six mapping
\* flags as they were.
C29_BadAngleRejected ==
    [][(op' \in ControlOps /\ calls' = <<>>)
        => (UNCHANGED mappingVars /\ sent' = sent)]_vars

\* ---- claims on the commands ----

\* the send_command calls that returned False
ReturnedFalse == {"unknown", "unsupported", "error"}

\* C23 (as claimed): every send_command call that returned False set a
\* status message during the call.
C23_FalseHasStatus ==
    \A i \in 1..Len(calls) : calls[i].res \in ReturnedFalse => calls[i].status

\* the numbers a caller supplied: x, y, z and the scale unless it is None
Supplied(c) == IF c.scale.none THEN 3 ELSE 4

\* the calls that reached the template: the table is there and the type known
ReachedTemplate(c) == c.res \in {"unsupported", "error", "sent"}

\* C25 (as claimed): a call fails at the format whenever the template's
\* placeholder count is neither 3 nor 4 or differs from the number of
\* numbers supplied, and transmits nothing.
C25_ArityAsSupplied ==
    \A i \in 1..Len(calls) :
        LET c == calls[i]
            n == param_count(command_formats(c.kind))
        IN (ReachedTemplate(c) /\ (n \notin {3, 4} \/ n # Supplied(c)))
              => (c.command = <<>> /\ c.res # "sent")

\* C25 (amended): a call fails at the format, transmitting nothing and
\* changing no session state, when the count of '%.2f' in the template is
\* neither 3 nor 4, when the template holds a further conversion specifier,
\* or when the count is 4 and no scale was supplied; a template of exactly
\* three '%.2f' is formatted with (x, y, z), whether or not a scale was
\* supplied, and one of exactly four, with a scale supplied, with
\* (x, y, z, scale).
C25_ArityByTemplate ==
    \A i \in 1..Len(calls) :
        LET c == calls[i]
            t == command_formats(c.kind)
            n == param_count(t)
            xyz == <<Num(c.x), Num(c.y), Num(c.z)>>
        IN ReachedTemplate(c) =>
            /\ (n \notin {3, 4} \/ Len(SpecsOf(t)) # n \/ (n = 4 /\ c.scale.none))
                 => (c.command = <<>> /\ c.res # "sent" /\ sent = <<>>)
            /\ (n = 3 /\ Len(SpecsOf(t)) = 3)
                 => (c.args = xyz /\ c.command = Fill(t, xyz))
            /\ (n = 4 /\ Len(SpecsOf(t)) = 4 /\ ~c.scale.none)
                 => (c.args = xyz \o <<c.scale>> /\ c.command = Fill(t, xyz \o <<c.scale>>))

\* C25 witness: a call with a scale on a template of three placeholders was
\* formatted with the three coordinates, the first one 0.11
C25_Witness ==
    /\ op = "send_command"
    /\ calls[1].kind = "fmt3" /\ ~calls[1].scale.none
    /\ Len(calls[1].args) = 3 /\ calls[1].x = 11
    /\ calls[1].command[2].v = 11

\* how a LisuManager.send_command call ends
LisuSendOps == {"lisu_send_noconnect", "lisu_send_typeerror", "lisu_send_ok"}

\* C30 (as claimed): LisuManager.send_command raises RuntimeError and changes
\* nothing when no device is current, and returns True for every current
\* device.
C30_LisuSendWhenConnected ==
    [][op' \in LisuSendOps
        => /\ current_device' = current_device
           /\ op' = IF current_device = "None"
                    THEN "lisu_send_noconnect" ELSE "lisu_send_ok"]_vars

\* the (device type, axis) pairs for which the configuration a handler was
\* built from holds a template
HasEntry(cc, device_type, axis) ==
    cc \in {"nested", "types"} /\ axis \in default_axes(device_type)

\* C24: for every (device type, axis) pair without a template entry,
\* CommandHandler.format_command fails with ValueError and
\* CommandHandler.send_command returns False without raising, whether the
\* handler was built from the defaults or from an existing document; for
\* every pair with an entry, format_command returns the formatted string.
C24_UnknownTemplateReported ==
    /\ op = "ch_format_command" =>
          IF HasEntry(command_config, ch_op.device_type, ch_op.axis)
          THEN ch_op.raised = "none" /\ ch_op.ret = "str" /\ ch_op.command # <<>>
          ELSE ch_op.raised = "ValueError"
    /\ op = "ch_send_command" =>
          /\ ch_op.raised = "none"
          /\ ~HasEntry(command_config, ch_op.device_type, ch_op.axis) => ch_op.ret = "False"

\* the run began with no data/config.json and each of the three components
\* has been constructed once
FreshStartupDone ==
    /\ startup.fresh
    /\ Len(startup.order) = 3
    /\ {startup.order[i] : i \in 1..3} = {"DeviceManager", "CommandHandler", "UDPManager"}

\* C26: starting with no data/config.json, after DeviceManager,
\* CommandHandler and UDPManager have been constructed in any order, every
\* default device name is accepted by DeviceManager.connect_device, every
\* default (device type, axis) template resolves in
\* CommandHandler.format_command, and the UDP target is 127.0.0.1:7755.
C26_DefaultsWhateverOrder ==
    [][FreshStartupDone =>
          /\ target_ip = "127.0.0.1" /\ target_port = 7755
          /\ \A d \in DmDevices :
                DeviceManager_connect_device(d) =>
                    op' = "dm_connect_ok" /\ dm_current_device' = d
          /\ \A t \in ChTypes, a \in ChAxes, v \in ChValues :
                (a \in default_axes(t) /\ CommandHandler_format_command(t, a, v)) =>
                    ch_op'.raised = "none" /\ ch_op'.command # <<>>]_vars

====
